---- MODULE Spec2Model ----
(***************************************************************************)
(* The resilient dispatch layer of client-service/src/index.ts: one        *)
(* process-wide CircuitBreaker, the retryWithBackoff engine that runs      *)
(* inside one breaker permit, and the facade routes that compose them.     *)
(*                                                                         *)
(* Node runs every handler and every continuation to its next await        *)
(* without interleaving, so one action is one such run: the start of a     *)
(* request up to its first awaited downstream call, the settling of an     *)
(* awaited downstream call up to the next await (a backoff timer) or up to *)
(* the response, the firing of a backoff timer up to the next awaited      *)
(* downstream call, the reset handler, and the passing of time.            *)
(***************************************************************************)
EXTENDS Integers, Sequences, FiniteSets, TLC

(* ---------------------------------------------------------------- bounds *)

\* The clock stops here (milliseconds).
MaxTime == 200000

\* One step of the clock (milliseconds): Date.now() is read at multiples of it.
TickMs == 60000

\* Math.random() is drawn from {0/RandDen, ..., (RandDen-1)/RandDen}.
RandDen == 3

\* The largest maxRetries a drawn RetryConfig carries.
MaxRetriesBound == 3
MaxFailures == 7

(* ------------------------------------------------------ program constants *)

failureThreshold == 5
resetTimeout == 60000
halfOpenMaxAttempts == 3

DefaultMaxRetries == 3
DefaultInitialDelay == 1000
DefaultMaxDelay == 10000
DefaultBackoffMultiplier == 2
\* jitterFactor 0.3, in hundredths
DefaultJitterPct == 30

Requests == {"r1", "r2"}

Min(a, b) == IF a <= b THEN a ELSE b
Max(a, b) == IF a >= b THEN a ELSE b

RECURSIVE Pow(_, _)
Pow(b, e) == IF e = 0 THEN 1 ELSE b * Pow(b, e - 1)

(* ------------------------------------------------------------------ state *)

VARIABLES
  circuitBreaker, \* the CircuitBreaker instance's private fields
  now,            \* Date.now()
  config,         \* the RetryConfig retryWithBackoff runs with
  faults,         \* the errors the wrapped downstream call can fail with
  clients,        \* the routes each request slot calls
  adminResponse,  \* the body of the latest reset response (<<>> before any)
  streak,         \* admitted calls that failed in a row, as the callers saw them
  req             \* per request slot: where its handler is, and what it saw

vars == <<circuitBreaker, now, config, faults, clients, adminResponse, streak, req>>

(* ----------------------------------------------------------------- errors *)

\* What one awaited downstream call can fail with: an axios error carrying a
\* 4xx or a 5xx response, an axios timeout (code ECONNABORTED, no response),
\* and an Error whose message holds 'Circuit breaker is OPEN'.
AxiosFaults == {"http404", "http500", "timeout"}
AllFaults == AxiosFaults \cup {"breakerOpen"}

\* error.response (<<>> when the error carries none)
responseOf(e) ==
  CASE e = "http404" -> <<[status |-> 404, data |-> "body404"]>>
    [] e = "http500" -> <<[status |-> 500, data |-> "body500"]>>
    [] OTHER -> <<>>

\* error.message?.includes('Circuit breaker is OPEN')
messageIsOpen(e) == e = "breakerOpen"

\* error.response?.status >= 400 && error.response?.status < 500
isClientError(e) ==
  /\ responseOf(e) # <<>>
  /\ responseOf(e)[1].status >= 400
  /\ responseOf(e)[1].status < 500

(* --------------------------------------------------------- CircuitBreaker *)

NewBreaker ==
  [state |-> "CLOSED", failureCount |-> 0, successCount |-> 0,
   lastFailureTime |-> 0, nextAttemptTime |-> 0]

\* executeEntry with the rejection counted as a failure.
executeEntryCountsRejection(b, t) ==
  IF b.state = "OPEN"
  THEN IF t >= b.nextAttemptTime
       THEN [admit |-> TRUE,
             cb |-> [b EXCEPT !.state = "HALF_OPEN", !.successCount = 0]]
       ELSE [admit |-> FALSE, cb |-> [b EXCEPT !.failureCount = @ + 1]]
  ELSE [admit |-> TRUE, cb |-> b]

\* executeEntry with Date.now() > nextAttemptTime for >=.
executeEntryStrictDeadline(b, t) ==
  IF b.state = "OPEN"
  THEN IF t > b.nextAttemptTime
       THEN [admit |-> TRUE,
             cb |-> [b EXCEPT !.state = "HALF_OPEN", !.successCount = 0]]
       ELSE [admit |-> FALSE, cb |-> b]
  ELSE [admit |-> TRUE, cb |-> b]

\* executeEntry without the deadline test: an OPEN breaker rejects, always.
executeEntryRejectsWhileOpen(b, t) ==
  IF b.state = "OPEN"
  THEN [admit |-> FALSE, cb |-> b]
  ELSE [admit |-> TRUE, cb |-> b]

\* The head of execute: admit == FALSE is the throw of line 40.
executeEntry(b, t) ==
  IF b.state = "OPEN"
  THEN IF t >= b.nextAttemptTime
       THEN [admit |-> TRUE,
             cb |-> [b EXCEPT !.state = "HALF_OPEN", !.successCount = 0]]
       ELSE [admit |-> FALSE, cb |-> b]
  ELSE [admit |-> TRUE, cb |-> b]

\* onSuccess with successCount > halfOpenMaxAttempts for >=.
onSuccessStrict(b) ==
  LET b1 == [b EXCEPT !.failureCount = 0] IN
  IF b1.state = "HALF_OPEN"
  THEN LET b2 == [b1 EXCEPT !.successCount = @ + 1] IN
       IF b2.successCount > halfOpenMaxAttempts
       THEN [b2 EXCEPT !.state = "CLOSED", !.successCount = 0]
       ELSE b2
  ELSE b1

onSuccess(b) ==
  LET b1 == [b EXCEPT !.failureCount = 0] IN
  IF b1.state = "HALF_OPEN"
  THEN LET b2 == [b1 EXCEPT !.successCount = @ + 1] IN
       IF b2.successCount >= halfOpenMaxAttempts
       THEN [b2 EXCEPT !.state = "CLOSED", !.successCount = 0]
       ELSE b2
  ELSE b1

\* onFailure with failureCount > failureThreshold for >=.
onFailureStrictThreshold(b, t) ==
  LET b1 == [b EXCEPT !.failureCount = @ + 1, !.lastFailureTime = t] IN
  IF b1.state = "HALF_OPEN"
  THEN [b1 EXCEPT !.state = "OPEN", !.nextAttemptTime = t + resetTimeout,
                  !.successCount = 0]
  ELSE IF b1.failureCount > failureThreshold
       THEN [b1 EXCEPT !.state = "OPEN", !.nextAttemptTime = t + resetTimeout]
       ELSE b1

\* onFailure without the HALF_OPEN branch: only the threshold opens.
onFailureThresholdOnly(b, t) ==
  LET b1 == [b EXCEPT !.failureCount = @ + 1, !.lastFailureTime = t] IN
  IF b1.failureCount >= failureThreshold
  THEN [b1 EXCEPT !.state = "OPEN", !.nextAttemptTime = t + resetTimeout]
  ELSE b1

\* onFailure re-opening from HALF_OPEN without zeroing successCount.
onFailureKeepsProbes(b, t) ==
  LET b1 == [b EXCEPT !.failureCount = @ + 1, !.lastFailureTime = t] IN
  IF b1.state = "HALF_OPEN"
  THEN [b1 EXCEPT !.state = "OPEN", !.nextAttemptTime = t + resetTimeout]
  ELSE IF b1.failureCount >= failureThreshold
       THEN [b1 EXCEPT !.state = "OPEN", !.nextAttemptTime = t + resetTimeout]
       ELSE b1

onFailure(b, t) ==
  LET b1 == [b EXCEPT !.failureCount = @ + 1, !.lastFailureTime = t] IN
  IF b1.state = "HALF_OPEN"
  THEN [b1 EXCEPT !.state = "OPEN", !.nextAttemptTime = t + resetTimeout,
                  !.successCount = 0]
  ELSE IF b1.failureCount >= failureThreshold
       THEN [b1 EXCEPT !.state = "OPEN", !.nextAttemptTime = t + resetTimeout]
       ELSE b1

\* executeSettle with the catch block throwing an error of its own.
executeSettleWraps(b, t, out) ==
  IF out = "ok"
  THEN [cb |-> onSuccess(b), update |-> "onSuccess", result |-> out]
  ELSE [cb |-> onFailure(b, t), update |-> "onFailure", result |-> "wrapped"]

\* executeSettle with a classifier: a client error (4xx) is handed to the
\* caller without being counted as a failure of the dependency.
executeSettleSkipsClientErrors(b, t, out) ==
  IF out = "ok"
  THEN [cb |-> onSuccess(b), update |-> "onSuccess", result |-> out]
  ELSE IF isClientError(out)
       THEN [cb |-> b, update |-> "none", result |-> out]
       ELSE [cb |-> onFailure(b, t), update |-> "onFailure", result |-> out]

\* The tail of execute, once the awaited operation has settled with `out`
\* ("ok" or the error it threw): the update applied and what the caller gets.
executeSettle(b, t, out) ==
  IF out = "ok"
  THEN [cb |-> onSuccess(b), update |-> "onSuccess", result |-> out]
  ELSE [cb |-> onFailure(b, t), update |-> "onFailure", result |-> out]

\* nextAttemptTime is <<t>> when OPEN and <<>> (null) otherwise.
getState(b) ==
  [state |-> b.state, failureCount |-> b.failureCount,
   successCount |-> b.successCount,
   nextAttemptTime |-> IF b.state = "OPEN" THEN <<b.nextAttemptTime>> ELSE <<>>]

\* reset closing the breaker without zeroing failureCount.
resetKeepsFailureCount(b) ==
  [b EXCEPT !.state = "CLOSED", !.successCount = 0, !.nextAttemptTime = 0]

reset(b) ==
  [b EXCEPT !.state = "CLOSED", !.failureCount = 0, !.successCount = 0,
            !.nextAttemptTime = 0]

(* ------------------------------------------------------- retryWithBackoff *)

DefaultConfig ==
  [maxRetries |-> DefaultMaxRetries, initialDelay |-> DefaultInitialDelay,
   maxDelay |-> DefaultMaxDelay, backoffMultiplier |-> DefaultBackoffMultiplier,
   jitterPct |-> DefaultJitterPct]

\* baseDelay with the exponent counted from 1.
baseDelayFromOne(cfg, attempt) ==
  Min(cfg.initialDelay * Pow(cfg.backoffMultiplier, attempt + 1), cfg.maxDelay)

baseDelay(cfg, attempt) ==
  Min(cfg.initialDelay * Pow(cfg.backoffMultiplier, attempt), cfg.maxDelay)

\* jitter with Math.random() * 2 for Math.random() * 2 - 1.
jitterOneSided(cfg, attempt, r) ==
  (baseDelay(cfg, attempt) * cfg.jitterPct * (2 * r)) \div (100 * RandDen)

\* baseDelay * jitterFactor * (Math.random() * 2 - 1), Math.random() = r / RandDen
jitter(cfg, attempt, r) ==
  (baseDelay(cfg, attempt) * cfg.jitterPct * (2 * r - RandDen)) \div (100 * RandDen)

delayOf(cfg, attempt, r) ==
  Max(0, baseDelay(cfg, attempt) + jitter(cfg, attempt, r))

\* retryCatch without the two early throws: every error is retried.
retryCatchRetriesAll(cfg, attempt, prev, e, r) ==
  LET lastError == e IN
  IF attempt < cfg.maxRetries
  THEN [throw |-> FALSE, thrown |-> "none", lastError |-> lastError,
        delay |-> delayOf(cfg, attempt, r)]
  ELSE [throw |-> TRUE, thrown |-> lastError, lastError |-> lastError,
        delay |-> 0]

\* The catch block of the loop, for the error `e` of attempt `attempt` (prev is
\* lastError before it): throw == TRUE leaves the function with `thrown`
\* (lines 132, 136, and 154 once the loop is over), otherwise the function
\* sleeps `delay` and goes round the loop.
retryCatch(cfg, attempt, prev, e, r) ==
  LET lastError == e IN
  IF isClientError(e) \/ messageIsOpen(e)
  THEN [throw |-> TRUE, thrown |-> e, lastError |-> lastError, delay |-> 0]
  ELSE IF attempt < cfg.maxRetries
       THEN [throw |-> FALSE, thrown |-> "none", lastError |-> lastError,
             delay |-> delayOf(cfg, attempt, r)]
       ELSE [throw |-> TRUE, thrown |-> lastError, lastError |-> lastError,
             delay |-> 0]

(* ------------------------------------------------------------- the facade *)

NoResponse == [status |-> 0, body |-> "none", circuitState |-> <<>>]

\* POST /api/users/register: the response for what the pipeline gave.
registerResponse(result, b) ==
  IF result = "ok"
  THEN [status |-> 201, body |-> "data", circuitState |-> <<>>]
  ELSE IF messageIsOpen(result)
       THEN [status |-> 503, body |-> "unavailable",
             circuitState |-> <<getState(b)>>]
       ELSE IF responseOf(result) # <<>>
            THEN [status |-> responseOf(result)[1].status,
                  body |-> responseOf(result)[1].data, circuitState |-> <<>>]
            ELSE [status |-> 500, body |-> "Failed to register user",
                  circuitState |-> <<>>]

\* GET /api/users: the response for what the pipeline gave.
usersResponse(result, b) ==
  IF result = "ok"
  THEN [status |-> 200, body |-> "data", circuitState |-> <<>>]
  ELSE IF messageIsOpen(result)
       THEN [status |-> 503, body |-> "unavailable",
             circuitState |-> <<getState(b)>>]
       ELSE [status |-> 500, body |-> "Failed to fetch users",
             circuitState |-> <<>>]

respond(route, result, b) ==
  IF route = "register" THEN registerResponse(result, b)
  ELSE usersResponse(result, b)

(* --------------------------------------------------------------- requests *)

\* A request slot before its first request. pc, route, attempt and lastError
\* are the handler's own state; the rest records what the handler did,
\* for the properties below.
IdleReq ==
  [pc |-> "idle", route |-> "register", attempt |-> 0, lastError |-> "none",
   calls |-> 0,            \* times execute invoked its operation
   attempts |-> 0,         \* downstream calls started by the retry loop
   sleeps |-> 0,           \* backoff timers started
   delay |-> 0,            \* the delay of the timer being awaited
   updates |-> 0,          \* onSuccess / onFailure applications
   update |-> "none",      \* which one was applied
   downstream |-> "none",  \* how the latest downstream call settled
   opResult |-> "none",    \* what the operation handed to execute
   result |-> "none",      \* what execute handed to the route
   rejected |-> FALSE,     \* execute threw at line 40
   admittedIn |-> "none",  \* the breaker's state as execute admitted the call
   admittedFresh |-> FALSE, \* ... and it was CLOSED with failureCount = 0
   response |-> NoResponse]

\* The loop condition with < for <=.
loopContinuesStrict(cfg, attempt) == attempt < cfg.maxRetries

\* for (...; attempt <= config.maxRetries; ...)
loopContinues(cfg, attempt) == attempt <= cfg.maxRetries

\* The request's record once execute has settled with `out`.
Settled(r, out, s, b) ==
  [r EXCEPT !.pc = "done", !.attempt = 0, !.lastError = "none", !.delay = 0,
            !.admittedIn = "none", !.admittedFresh = FALSE,
            !.opResult = out, !.result = s.result,
            !.update = s.update, !.updates = @ + 1,
            !.response = respond(r.route, s.result, b)]

\* A request arrives on a route: execute's admission, and for an admitted call
\* the operation, retryWithBackoff, up to its first awaited downstream call.
\* (With a maxRetries below 0 the loop body never runs and line 154 throws an
\* unassigned lastError: pc "stuck", which no RetryConfig here reaches.)
Request(p, rt) ==
  /\ rt \in clients[p]
  /\ req[p].pc \in {"idle", "done"}
  /\ LET en == executeEntry(circuitBreaker, now) IN
     /\ circuitBreaker' = en.cb
     /\ IF en.admit
        THEN req' = [req EXCEPT ![p] =
                 IF loopContinues(config, 0)
                 THEN [IdleReq EXCEPT !.pc = "call", !.route = rt, !.calls = 1,
                                      !.attempts = 1,
                                      !.admittedIn = en.cb.state,
                                      !.admittedFresh =
                                         (/\ en.cb.state = "CLOSED"
                                          /\ en.cb.failureCount = 0)]
                 ELSE [IdleReq EXCEPT !.pc = "stuck", !.route = rt, !.calls = 1]]
        ELSE req' = [req EXCEPT ![p] =
                 [IdleReq EXCEPT !.pc = "done", !.route = rt, !.rejected = TRUE,
                                 !.result = "breakerOpen",
                                 !.response = respond(rt, "breakerOpen", en.cb)]]
  /\ UNCHANGED <<now, config, faults, clients, adminResponse, streak>>

\* The awaited downstream call resolves: retryWithBackoff returns its value,
\* execute applies onSuccess and the route responds.
CallSucceeds(p) ==
  /\ req[p].pc = "call"
  /\ LET s == executeSettle(circuitBreaker, now, "ok") IN
     /\ circuitBreaker' = s.cb
     /\ req' = [req EXCEPT ![p] =
                  Settled([req[p] EXCEPT !.downstream = "ok"], "ok", s, s.cb)]
  /\ streak' = 0
  /\ UNCHANGED <<now, config, faults, clients, adminResponse>>

\* CallFails with a lost update: the onFailure of a call that ends while
\* another request is in flight is overwritten, as a read-modify-write of the
\* counters spread over two turns of the event loop would be.
CallFailsLosesUpdate(p, e, r) ==
  /\ req[p].pc = "call"
  /\ e \in faults
  /\ LET c == retryCatch(config, req[p].attempt, req[p].lastError, e, r) IN
     IF c.throw
     THEN LET s == executeSettle(circuitBreaker, now, c.thrown) IN
          /\ circuitBreaker' =
                IF \E q \in Requests \ {p} : req[q].pc \in {"call", "backoff"}
                THEN circuitBreaker ELSE s.cb
          /\ req' = [req EXCEPT ![p] =
                       Settled([req[p] EXCEPT !.downstream = e], c.thrown, s, s.cb)]
          /\ streak' = streak + 1
     ELSE /\ req' = [req EXCEPT ![p] =
                       [req[p] EXCEPT !.pc = "backoff", !.lastError = c.lastError,
                                      !.delay = c.delay,
                                      !.sleeps = @ + 1, !.downstream = e]]
          /\ UNCHANGED <<circuitBreaker, streak>>
  /\ UNCHANGED <<now, config, faults, clients, adminResponse>>

\* CallFails as it would be with the nesting the other way round,
\* retryWithBackoff(() => circuitBreaker.execute(call)): every failed attempt
\* is a breaker failure of its own.
CallFailsCountsEachAttempt(p, e, r) ==
  /\ req[p].pc = "call"
  /\ e \in faults
  /\ LET c == retryCatch(config, req[p].attempt, req[p].lastError, e, r) IN
     IF c.throw
     THEN LET s == executeSettle(circuitBreaker, now, c.thrown) IN
          /\ circuitBreaker' = s.cb
          /\ req' = [req EXCEPT ![p] =
                       Settled([req[p] EXCEPT !.downstream = e], c.thrown, s, s.cb)]
          /\ streak' = streak + 1
     ELSE /\ req' = [req EXCEPT ![p] =
                       [req[p] EXCEPT !.pc = "backoff", !.lastError = c.lastError,
                                      !.delay = c.delay,
                                      !.sleeps = @ + 1, !.downstream = e]]
          /\ circuitBreaker' = onFailure(circuitBreaker, now)
          /\ UNCHANGED streak
  /\ UNCHANGED <<now, config, faults, clients, adminResponse>>

\* The awaited downstream call rejects with e: the catch block either starts
\* a backoff timer or throws, and then execute applies onFailure and the
\* route responds. r is the Math.random() draw of the jitter.
CallFails(p, e, r) ==
  /\ req[p].pc = "call"
  /\ e \in faults
  /\ LET c == retryCatch(config, req[p].attempt, req[p].lastError, e, r) IN
     IF c.throw
     THEN LET s == executeSettle(circuitBreaker, now, c.thrown) IN
          /\ circuitBreaker' = s.cb
          /\ req' = [req EXCEPT ![p] =
                       Settled([req[p] EXCEPT !.downstream = e], c.thrown, s, s.cb)]
          /\ streak' = streak + 1
     ELSE /\ req' = [req EXCEPT ![p] =
                       [req[p] EXCEPT !.pc = "backoff", !.lastError = c.lastError,
                                      !.delay = c.delay,
                                      !.sleeps = @ + 1, !.downstream = e]]
          /\ UNCHANGED <<circuitBreaker, streak>>
  /\ UNCHANGED <<now, config, faults, clients, adminResponse>>

\* The backoff timer fires (no earlier than its delay): attempt++, and the
\* loop starts the next downstream call, or is over and throws lastError.
TimerFires(p) ==
  /\ req[p].pc = "backoff"
  /\ IF loopContinues(config, req[p].attempt + 1)
     THEN /\ req' = [req EXCEPT ![p] =
                       [req[p] EXCEPT !.pc = "call", !.attempt = @ + 1,
                                      !.attempts = @ + 1, !.delay = 0]]
          /\ UNCHANGED <<circuitBreaker, streak>>
     ELSE LET s == executeSettle(circuitBreaker, now, req[p].lastError) IN
          /\ circuitBreaker' = s.cb
          /\ req' = [req EXCEPT ![p] = Settled(req[p], req[p].lastError, s, s.cb)]
          /\ streak' = streak + 1
  /\ UNCHANGED <<now, config, faults, clients, adminResponse>>

\* POST /circuit-breaker/reset
Reset ==
  /\ circuitBreaker' = reset(circuitBreaker)
  /\ adminResponse' = <<getState(reset(circuitBreaker))>>
  /\ streak' = 0
  /\ UNCHANGED <<now, config, faults, clients, req>>

\* Time passes.
Tick ==
  /\ now + TickMs <= MaxTime
  /\ now' = now + TickMs
  /\ UNCHANGED <<circuitBreaker, adminResponse, streak, config, faults, clients, req>>

Next ==
  \/ \E p \in Requests, rt \in {"register", "users"} : Request(p, rt)
  \/ \E p \in Requests : CallSucceeds(p)
  \/ \E p \in Requests, e \in AllFaults, r \in 0 .. RandDen - 1 : CallFails(p, e, r)
  \/ \E p \in Requests : TimerFires(p)
  \/ Reset
  \/ Tick

\* The RetryConfigs a run of retryWithBackoff is given.
RetryConfigs ==
  { [DefaultConfig EXCEPT !.maxRetries = m, !.jitterPct = j, !.maxDelay = d] :
      m \in 0 .. MaxRetriesBound, j \in {0, DefaultJitterPct, 150},
      d \in {3000, DefaultMaxDelay} }

InitCommon ==
  /\ circuitBreaker = NewBreaker
  /\ adminResponse = <<>>
  /\ streak = 0
  /\ now = TickMs
  /\ req = [p \in Requests |-> IdleReq]

\* The service as deployed: both routes, concurrent requests, the default
\* RetryConfig, axios as the wrapped operation.
Init ==
  /\ InitCommon
  /\ clients = [p \in Requests |-> IF p = "r1" THEN {"register"} ELSE {"users"}]
  /\ config = DefaultConfig
  /\ faults = AxiosFaults

Spec == Init /\ [][Next]_vars

\* One caller at a time, any RetryConfig, any wrapped operation.
InitSeq ==
  /\ InitCommon
  /\ clients = [p \in Requests |-> IF p = "r1" THEN {"register", "users"} ELSE {}]
  /\ config \in RetryConfigs
  /\ faults = AllFaults

SpecSeq == InitSeq /\ [][Next]_vars

\* Time passes, without end: Date.now() has no last value. Once the clock of
\* the model is at its last value the epoch is moved instead, every stored
\* timestamp going back by one tick; execute only compares Date.now() with
\* nextAttemptTime (line 35), which the move leaves as it is.
TickLive ==
  /\ IF now + TickMs <= MaxTime
     THEN /\ now' = now + TickMs
          /\ UNCHANGED circuitBreaker
     ELSE /\ circuitBreaker' =
               [circuitBreaker EXCEPT !.nextAttemptTime = Max(@ - TickMs, 0),
                                      !.lastFailureTime = Max(@ - TickMs, 0)]
          /\ UNCHANGED now
  /\ UNCHANGED <<adminResponse, streak, config, faults, clients, req>>

\* The downstream service recovers for good: from here on every call to it
\* succeeds.
Recover ==
  /\ faults # {}
  /\ faults' = {}
  /\ UNCHANGED <<circuitBreaker, now, config, clients, adminResponse, streak, req>>

\* The downstream call of slot p settles, one way or the other. (failureCount
\* has no upper limit in the code: here the downstream stops failing once it
\* is MaxFailures.)
Settle(p) ==
  \/ CallSucceeds(p)
  \/ /\ circuitBreaker.failureCount < MaxFailures
     /\ \E e \in AllFaults, r \in 0 .. RandDen - 1 : CallFails(p, e, r)

\* The breaker left to itself (no administrative reset), with a clock that
\* never stops and a downstream that may recover.
NextLive ==
  \/ \E p \in Requests, rt \in {"register", "users"} : Request(p, rt)
  \/ \E p \in Requests : Settle(p)
  \/ \E p \in Requests : TimerFires(p)
  \/ TickLive
  \/ Recover

\* Time advances, requests keep arriving, every downstream call settles and
\* every timer fires.
Fairness ==
  /\ WF_vars(TickLive)
  /\ \A p \in Requests :
       /\ WF_vars(\E rt \in {"register", "users"} : Request(p, rt))
       /\ WF_vars(Settle(p))
       /\ WF_vars(TimerFires(p))

\* One caller at a time, the default RetryConfig, axios as the operation.
InitLive ==
  /\ InitCommon
  /\ clients = [p \in Requests |-> IF p = "r1" THEN {"register", "users"} ELSE {}]
  /\ config = DefaultConfig
  /\ faults = AxiosFaults

SpecLive == InitLive /\ [][NextLive]_vars /\ Fairness

(* ------------------------------------------------------------- properties *)

InFlight(p) == req[p].pc \in {"call", "backoff"}

\* This step is the arrival of a request in slot p (only Request changes the
\* record of a slot that holds no running handler).
Arrives(p) == req[p].pc \in {"idle", "done"} /\ req'[p] # req[p]

\* This step is the end of an admitted call of slot p: failed, or succeeded,
\* as the downstream call that ended it went.
Fails(p) == InFlight(p) /\ req'[p].pc = "done" /\ req'[p].downstream # "ok"
Succeeds(p) == InFlight(p) /\ req'[p].pc = "done" /\ req'[p].downstream = "ok"

\* C1: with calls executed one after another, a CLOSED breaker has seen fewer
\* than failureThreshold failures in a row; the failed call that makes it
\* failureThreshold in a row, and no earlier one, opens the breaker with
\* nextAttemptTime = now + resetTimeout; a success while CLOSED leaves it
\* CLOSED with failureCount = 0, so the row starts again from 0.
C1_TripsAtThreshold ==
  /\ [](circuitBreaker.state = "CLOSED" =>
          streak < failureThreshold /\ circuitBreaker.failureCount = streak)
  /\ [][\A p \in Requests :
          /\ (Fails(p) /\ circuitBreaker.state = "CLOSED") =>
               /\ streak' = streak + 1
               /\ IF streak' = failureThreshold
                  THEN /\ circuitBreaker'.state = "OPEN"
                       /\ circuitBreaker'.nextAttemptTime = now + resetTimeout
                  ELSE /\ circuitBreaker'.state = "CLOSED"
                       /\ circuitBreaker'.nextAttemptTime =
                            circuitBreaker.nextAttemptTime
          /\ (Succeeds(p) /\ circuitBreaker.state = "CLOSED") =>
               /\ circuitBreaker'.state = "CLOSED"
               /\ circuitBreaker'.failureCount = 0
               /\ streak' = 0]_vars

\* The breaker has just tripped on the failureThreshold-th failure in a row.
C1_Witness ==
  /\ circuitBreaker.state = "OPEN"
  /\ streak = failureThreshold
  /\ circuitBreaker.nextAttemptTime = now + resetTimeout
  /\ req["r1"].pc = "done" /\ req["r1"].update = "onFailure"

\* C2: a request that arrives while the breaker is OPEN and now <
\* nextAttemptTime ends at once with the breaker-open error, the operation
\* and the downstream are never called, and state, failureCount,
\* successCount and nextAttemptTime stay as they were.
C2_RejectedUntouched ==
  [][\A p \in Requests :
       (/\ Arrives(p)
        /\ circuitBreaker.state = "OPEN"
        /\ now < circuitBreaker.nextAttemptTime) =>
         /\ req'[p].pc = "done"
         /\ req'[p].result = "breakerOpen"
         /\ req'[p].calls = 0
         /\ req'[p].attempts = 0
         /\ req'[p].updates = 0
         /\ circuitBreaker'.state = circuitBreaker.state
         /\ circuitBreaker'.failureCount = circuitBreaker.failureCount
         /\ circuitBreaker'.successCount = circuitBreaker.successCount
         /\ circuitBreaker'.nextAttemptTime = circuitBreaker.nextAttemptTime]_vars

\* A request was rejected and the breaker is still OPEN before its deadline.
C2_Witness ==
  \E p \in Requests :
    /\ req[p].pc = "done" /\ req[p].rejected
    /\ req[p].calls = 0 /\ req[p].attempts = 0
    /\ req[p].response.status = 503
    /\ circuitBreaker.state = "OPEN"
    /\ now < circuitBreaker.nextAttemptTime

\* C3: a request that arrives while the breaker is OPEN and now >=
\* nextAttemptTime turns the breaker HALF_OPEN with successCount = 0, and its
\* operation is invoked: it is not rejected.
C3_ProbeAdmitted ==
  [][\A p \in Requests :
       (/\ Arrives(p)
        /\ circuitBreaker.state = "OPEN"
        /\ now >= circuitBreaker.nextAttemptTime) =>
         /\ circuitBreaker'.state = "HALF_OPEN"
         /\ circuitBreaker'.successCount = 0
         /\ req'[p].pc = "call"
         /\ req'[p].calls = 1
         /\ req'[p].attempts = 1
         /\ ~req'[p].rejected]_vars

\* The probe is in flight right at the deadline, the breaker HALF_OPEN.
C3_Witness ==
  \E p \in Requests :
    /\ circuitBreaker.state = "HALF_OPEN"
    /\ circuitBreaker.successCount = 0
    /\ now = circuitBreaker.nextAttemptTime
    /\ req[p].pc = "call" /\ req[p].attempts = 1

\* C4: a call that succeeds while the breaker is HALF_OPEN raises successCount
\* by one; if that makes it halfOpenMaxAttempts the breaker is CLOSED with
\* failureCount = successCount = 0, and otherwise it stays HALF_OPEN.
C4_HalfOpenSuccess ==
  [][\A p \in Requests :
       (Succeeds(p) /\ circuitBreaker.state = "HALF_OPEN") =>
         IF circuitBreaker.successCount + 1 = halfOpenMaxAttempts
         THEN /\ circuitBreaker'.state = "CLOSED"
              /\ circuitBreaker'.failureCount = 0
              /\ circuitBreaker'.successCount = 0
         ELSE /\ circuitBreaker'.state = "HALF_OPEN"
              /\ circuitBreaker'.successCount = circuitBreaker.successCount + 1
              /\ circuitBreaker'.successCount < halfOpenMaxAttempts]_vars

\* The breaker was closed by successes (a reset would have zeroed
\* nextAttemptTime), and the latest call of some slot was one of them.
C4_Witness ==
  \E p \in Requests :
    /\ circuitBreaker.state = "CLOSED"
    /\ circuitBreaker.nextAttemptTime > 0
    /\ circuitBreaker.failureCount = 0 /\ circuitBreaker.successCount = 0
    /\ req[p].pc = "done" /\ req[p].update = "onSuccess"

\* C5: a call that fails while the breaker is HALF_OPEN leaves it OPEN with
\* nextAttemptTime = now + resetTimeout and successCount = 0, whatever
\* successCount and failureCount were.
C5_HalfOpenFailure ==
  [][\A p \in Requests :
       (Fails(p) /\ circuitBreaker.state = "HALF_OPEN") =>
         /\ circuitBreaker'.state = "OPEN"
         /\ circuitBreaker'.nextAttemptTime = now + resetTimeout
         /\ circuitBreaker'.successCount = 0]_vars

\* The breaker is OPEN again below the failure threshold: a probe succeeded
\* (failureCount back to 0) and a later one failed.
C5_Witness ==
  \E p \in Requests :
    /\ circuitBreaker.state = "OPEN"
    /\ circuitBreaker.failureCount > 0
    /\ circuitBreaker.failureCount < failureThreshold
    /\ circuitBreaker.successCount = 0
    /\ circuitBreaker.nextAttemptTime = now + resetTimeout
    /\ req[p].pc = "done" /\ req[p].update = "onFailure"

\* C6: an admitted call invokes its operation exactly once; when it is over,
\* exactly one of onSuccess / onFailure was applied (onSuccess exactly when
\* the operation returned) and the caller got the operation's own value or
\* error; a rejected call invokes nothing and applies nothing.
C6_ExecuteOnceUnchanged ==
  \A p \in Requests :
    /\ InFlight(p) => req[p].calls = 1 /\ req[p].updates = 0
    /\ (req[p].pc = "done" /\ ~req[p].rejected) =>
         /\ req[p].calls = 1
         /\ req[p].updates = 1
         /\ req[p].opResult # "none"
         /\ req[p].result = req[p].opResult
         /\ req[p].update = IF req[p].opResult = "ok" THEN "onSuccess" ELSE "onFailure"
    /\ (req[p].pc = "done" /\ req[p].rejected) =>
         req[p].calls = 0 /\ req[p].updates = 0

\* An admitted call ended with the operation's error, handed on as it was.
C6_Witness ==
  \E p \in Requests :
    /\ req[p].pc = "done" /\ ~req[p].rejected
    /\ req[p].opResult = "timeout" /\ req[p].result = "timeout"
    /\ req[p].update = "onFailure"

\* This step is the reset handler: the only one that touches the breaker or
\* the reset response and no request.
ResetStep ==
  /\ UNCHANGED <<req, now>>
  /\ circuitBreaker' # circuitBreaker \/ adminResponse' # adminResponse

ZeroStatus ==
  [state |-> "CLOSED", failureCount |-> 0, successCount |-> 0,
   nextAttemptTime |-> <<>>]

\* C7: the reset, in any state and with or without calls in flight, leaves
\* state = CLOSED and failureCount, successCount, nextAttemptTime and
\* lastFailureTime all 0, and responds with CLOSED, zero counters and a null
\* nextAttemptTime.
C7_ResetZeroesAll ==
  [][ResetStep =>
       /\ circuitBreaker'.state = "CLOSED"
       /\ circuitBreaker'.failureCount = 0
       /\ circuitBreaker'.successCount = 0
       /\ circuitBreaker'.nextAttemptTime = 0
       /\ circuitBreaker'.lastFailureTime = 0
       /\ adminResponse' = <<ZeroStatus>>]_vars

\* What the reset does do: all of the above but lastFailureTime, which it
\* leaves as it was.
ResetZeroesAllButLastFailureTime ==
  [][ResetStep =>
       /\ circuitBreaker'.state = "CLOSED"
       /\ circuitBreaker'.failureCount = 0
       /\ circuitBreaker'.successCount = 0
       /\ circuitBreaker'.nextAttemptTime = 0
       /\ circuitBreaker'.lastFailureTime = circuitBreaker.lastFailureTime
       /\ adminResponse' = <<ZeroStatus>>]_vars

Retryable == {"http500", "timeout"}
NotRetried == {"http404", "breakerOpen"}

\* C8: one run of the retry engine starts at most maxRetries + 1 downstream
\* calls and every step of it starts a call, starts a timer or ends the run,
\* so it ends; it ends at the first call that succeeds, with that value; a
\* run that ends with a retryable error has made exactly maxRetries + 1 calls
\* and throws the error of the last one.
C8_BoundedAttempts ==
  /\ [](\A p \in Requests :
          /\ req[p].pc \in {"idle", "call", "backoff", "done"}
          /\ req[p].attempts <= config.maxRetries + 1
          /\ req[p].sleeps <= req[p].attempts
          /\ req[p].downstream = "ok" =>
               req[p].pc = "done" /\ req[p].opResult = "ok"
          /\ (req[p].pc = "done" /\ req[p].opResult \in Retryable) =>
               /\ req[p].attempts = config.maxRetries + 1
               /\ req[p].opResult = req[p].downstream)
  /\ [][\A p \in Requests :
          (InFlight(p) /\ req'[p] # req[p]) =>
            \/ req'[p].pc = "done"
            \/ req'[p].attempts + req'[p].sleeps =
                 req[p].attempts + req[p].sleeps + 1]_vars

\* With maxRetries = 3, a run ended after 4 calls with the last one's error.
C8_Witness ==
  /\ config.maxRetries = 3
  /\ req["r1"].pc = "done"
  /\ req["r1"].attempts = 4
  /\ req["r1"].opResult = "timeout"
  /\ req["r1"].downstream = "timeout"

\* C9: a downstream call that fails with a 4xx response or with the
\* circuit-open message ends the run at once: no further call, no timer, and
\* that error is the one thrown; if it was the first call, it is the only one.
C9_NonRetryableStops ==
  \A p \in Requests :
    req[p].downstream \in NotRetried =>
      /\ req[p].pc = "done"
      /\ req[p].opResult = req[p].downstream
      /\ req[p].sleeps = req[p].attempts - 1
      /\ req[p].delay = 0

\* A run ended on a 404 of its first call.
C9_Witness ==
  /\ req["r1"].pc = "done"
  /\ req["r1"].downstream = "http404"
  /\ req["r1"].opResult = "http404"
  /\ req["r1"].attempts = 1
  /\ req["r1"].sleeps = 0

\* min(initialDelay * backoffMultiplier^k, maxDelay)
ExpectedDelay(cfg, k) ==
  LET raw == cfg.initialDelay * Pow(cfg.backoffMultiplier, k) IN
  IF raw < cfg.maxDelay THEN raw ELSE cfg.maxDelay

\* C10: with jitterFactor = 0 the timer started after failed attempt k is set
\* to min(initialDelay * backoffMultiplier^k, maxDelay), which for
\* initialDelay = 1000, backoffMultiplier = 2, maxDelay = 10000 is 1000, 2000,
\* 4000, ...; and a run that used up its attempts started maxRetries timers:
\* none after the last failed attempt.
C10_ExactDelays ==
  \A p \in Requests :
    /\ req[p].pc = "backoff" =>
         /\ req[p].sleeps = req[p].attempt + 1
         /\ req[p].attempt < config.maxRetries
         /\ config.jitterPct = 0 =>
              /\ req[p].delay = ExpectedDelay(config, req[p].attempt)
              /\ config.maxDelay = 10000 =>
                   req[p].delay =
                     <<1000, 2000, 4000, 8000, 10000>>[req[p].attempt + 1]
    /\ req[p].sleeps <= config.maxRetries
    /\ (req[p].pc = "done" /\ req[p].opResult \in Retryable) =>
         req[p].sleeps = config.maxRetries

\* maxRetries = 3 without jitter: the third timer is set to 4000.
C10_Witness ==
  /\ config.maxRetries = 3 /\ config.jitterPct = 0 /\ config.maxDelay = 10000
  /\ req["r1"].pc = "backoff"
  /\ req["r1"].attempt = 2
  /\ req["r1"].delay = 4000

\* C11: with jitterFactor = 0.3 every delay a timer is set to lies within
\* [0.7 * baseDelay, 1.3 * baseDelay], baseDelay = min(initialDelay *
\* backoffMultiplier^attempt, maxDelay), whatever the random draw; and with
\* any jitterFactor (1.5 too, where baseDelay + jitter can be negative) the
\* delay is never below 0.
C11_JitterWithinBand ==
  \A p \in Requests :
    req[p].pc = "backoff" =>
      /\ req[p].delay >= 0
      /\ config.jitterPct = 30 =>
           /\ 10 * req[p].delay >= 7 * ExpectedDelay(config, req[p].attempt)
           /\ 10 * req[p].delay <= 13 * ExpectedDelay(config, req[p].attempt)
      /\ (config.jitterPct = 150 /\ req[p].delay > 0) =>
           2 * req[p].delay < 5 * ExpectedDelay(config, req[p].attempt)

\* jitterFactor = 0.3 and the draw 0: the first timer is set to 700, the
\* lower end of the band around 1000.
C11_Witness ==
  /\ config.jitterPct = 30
  /\ req["r1"].pc = "backoff"
  /\ req["r1"].attempt = 0
  /\ req["r1"].delay = 700

\* jitterFactor = 1.5 and the draw 0: the delay is clamped to 0.
C11_ClampReached ==
  /\ config.jitterPct = 150
  /\ req["r1"].pc = "backoff"
  /\ req["r1"].delay = 0

\* C12: one request is one breaker decision. While its retries run (a failed
\* attempt that starts a timer, a timer that starts the next attempt) the
\* request is neither admitted again nor rejected and the breaker is not
\* touched; when it ends, exactly one update has been applied: a request whose
\* attempts all failed raises failureCount by exactly 1.
C12_OneDecisionPerRequest ==
  [][\A p \in Requests :
       (InFlight(p) /\ req'[p] # req[p]) =>
         /\ ~req'[p].rejected
         /\ req'[p].calls = 1
         /\ req'[p].pc \in {"call", "backoff"} =>
              /\ circuitBreaker' = circuitBreaker
              /\ req'[p].updates = 0
         /\ req'[p].pc = "done" =>
              /\ req'[p].updates = 1
              /\ circuitBreaker'.failureCount =
                   IF req'[p].downstream = "ok" THEN 0
                   ELSE circuitBreaker.failureCount + 1]_vars

\* A request made maxRetries + 1 = 4 attempts, all failed, and failureCount,
\* 0 before it, is 1.
C12_Witness ==
  \E p \in Requests :
    /\ req[p].pc = "done"
    /\ req[p].attempts = config.maxRetries + 1
    /\ req[p].attempts = 4
    /\ req[p].sleeps = 3
    /\ req[p].update = "onFailure" /\ req[p].updates = 1
    /\ circuitBreaker.failureCount = 1
    /\ streak = 1

InternalErrors == {"Failed to register user", "Failed to fetch users"}

\* The route of slot p forwarded what the downstream answered, and answered
\* 'internal error' only to a failure without a downstream response that is
\* not the breaker-open signal.
Forwards(p) ==
  /\ responseOf(req[p].result) # <<>> =>
       /\ req[p].response.status = responseOf(req[p].result)[1].status
       /\ req[p].response.body = responseOf(req[p].result)[1].data
  /\ req[p].response.body \in InternalErrors =>
       /\ responseOf(req[p].result) = <<>>
       /\ ~messageIsOpen(req[p].result)
       /\ req[p].result # "ok"

\* C13: on both routes of the pipeline, register and list-users, a failure
\* that carries a downstream response is answered with that response's status
\* and body, and 'internal error' is answered only to a failure with no
\* downstream response that is not the breaker-open signal.
C13_ForwardsDownstreamResponse ==
  \A p \in Requests : req[p].pc = "done" => Forwards(p)

\* What holds: the register route forwards; the list-users route answers 500
\* 'Failed to fetch users' to every failure but the breaker-open signal.
RegisterForwardsUsersDoesNot ==
  \A p \in Requests :
    req[p].pc = "done" =>
      /\ req[p].route = "register" => Forwards(p)
      /\ (/\ req[p].route = "users"
          /\ req[p].result # "ok"
          /\ ~messageIsOpen(req[p].result)) =>
           /\ req[p].response.status = 500
           /\ req[p].response.body = "Failed to fetch users"

C14_TripWhileInFlight ==
  /\ circuitBreaker.state = "OPEN"
  /\ circuitBreaker.failureCount = failureThreshold
  /\ InFlight("r2") /\ req["r2"].admittedFresh

\* C15: a downstream client error (4xx) is not retried, and execute counts
\* it as a failure like any other: the call ends on the attempt that got the
\* 4xx, onFailure is applied, failureCount goes up by one exactly as it does
\* for a 5xx or a timeout, and the 4xx that makes it failureThreshold in a
\* row opens a CLOSED breaker with nextAttemptTime = now + resetTimeout.
C15_ClientErrorCounts ==
  [][\A p \in Requests :
       Fails(p) =>
         /\ req'[p].update = "onFailure"
         /\ circuitBreaker'.failureCount = circuitBreaker.failureCount + 1
         /\ isClientError(req'[p].downstream) =>
              /\ req[p].pc = "call"
              /\ req'[p].attempts = req[p].attempts
              /\ req'[p].opResult = req'[p].downstream
              /\ (/\ circuitBreaker.state = "CLOSED"
                  /\ circuitBreaker.failureCount + 1 >= failureThreshold) =>
                   /\ circuitBreaker'.state = "OPEN"
                   /\ circuitBreaker'.nextAttemptTime = now + resetTimeout]_vars

\* A 404 on the first attempt, with retries to spare, was the
\* failureThreshold-th failure in a row and opened the breaker.
C15_Witness ==
  \E p \in Requests :
    /\ req[p].pc = "done" /\ req[p].downstream = "http404"
    /\ req[p].attempts = 1 /\ config.maxRetries >= 1
    /\ req[p].update = "onFailure"
    /\ circuitBreaker.state = "OPEN"
    /\ circuitBreaker.failureCount = failureThreshold
    /\ circuitBreaker.lastFailureTime = now
    /\ circuitBreaker.nextAttemptTime = now + resetTimeout

\* C16: under any interleaving of concurrent calls and resets, successCount
\* is 0 whenever the breaker is not HALF_OPEN, and it is always below
\* halfOpenMaxAttempts: successes are accumulated only while HALF_OPEN.
C16_SuccessCountOnlyHalfOpen ==
  /\ circuitBreaker.state # "HALF_OPEN" => circuitBreaker.successCount = 0
  /\ circuitBreaker.successCount >= 0
  /\ circuitBreaker.successCount < halfOpenMaxAttempts

\* HALF_OPEN one success short of closing, with both requests in flight.
C16_Witness ==
  /\ circuitBreaker.state = "HALF_OPEN"
  /\ circuitBreaker.successCount = halfOpenMaxAttempts - 1
  /\ \A p \in Requests : InFlight(p)

\* Re-opened by a failed call after a reset had answered, with the count of
\* probe successes back at 0 and another call still in flight.
C16_ReopenedZero ==
  /\ circuitBreaker.state = "OPEN"
  /\ circuitBreaker.successCount = 0
  /\ circuitBreaker.failureCount < failureThreshold
  /\ adminResponse # <<>>
  /\ \E p \in Requests : InFlight(p)

\* C17: under any interleaving of concurrent calls and resets, a CLOSED
\* breaker has 0 <= failureCount < failureThreshold: it is never CLOSED with
\* a count that should have opened it.
C17_ClosedBelowThreshold ==
  circuitBreaker.state = "CLOSED" =>
    /\ circuitBreaker.failureCount >= 0
    /\ circuitBreaker.failureCount < failureThreshold

\* CLOSED one failure short of the threshold, after a reset has answered and
\* with both requests in flight.
C17_Witness ==
  /\ circuitBreaker.state = "CLOSED"
  /\ circuitBreaker.failureCount = failureThreshold - 1
  /\ adminResponse # <<>>
  /\ \A p \in Requests : InFlight(p)

\* This step is the end of an admitted call of slot p, either way.
Completes(p) == Fails(p) \/ Succeeds(p)

\* C18: nextAttemptTime is assigned only as the breaker enters OPEN or by
\* reset; a call that completes while the breaker is OPEN (it was admitted
\* before the trip) leaves the state OPEN and nextAttemptTime as it was,
\* whether it succeeded or failed.
C18_DeadlineNotPushedBack ==
  [][/\ circuitBreaker'.nextAttemptTime # circuitBreaker.nextAttemptTime =>
          \/ circuitBreaker.state # "OPEN" /\ circuitBreaker'.state = "OPEN"
          \/ ResetStep
     /\ \A p \in Requests :
          (Completes(p) /\ circuitBreaker.state = "OPEN") =>
            /\ circuitBreaker'.state = "OPEN"
            /\ circuitBreaker'.nextAttemptTime = circuitBreaker.nextAttemptTime]_vars

\* What holds: a call completing while OPEN leaves the breaker OPEN; a
\* success leaves nextAttemptTime alone, and a failure leaves it alone only
\* while failureCount stays below failureThreshold: from the threshold on,
\* each failure sets nextAttemptTime to now + resetTimeout again.
StragglerFailureRestartsCoolDown ==
  [][\A p \in Requests :
       (Completes(p) /\ circuitBreaker.state = "OPEN") =>
         /\ circuitBreaker'.state = "OPEN"
         /\ circuitBreaker'.nextAttemptTime =
              IF Fails(p) /\ circuitBreaker.failureCount + 1 >= failureThreshold
              THEN now + resetTimeout
              ELSE circuitBreaker.nextAttemptTime]_vars

\* An OPEN breaker whose failureCount has passed failureThreshold, with a
\* deadline a full resetTimeout after a clock that is itself a resetTimeout
\* past the first failure there can have been.
DeadlinePushedBack ==
  /\ circuitBreaker.state = "OPEN"
  /\ circuitBreaker.failureCount > failureThreshold
  /\ circuitBreaker.nextAttemptTime = now + resetTimeout
  /\ now >= TickMs + resetTimeout
  /\ \E p \in Requests : req[p].pc = "done" /\ req[p].update = "onFailure"
  /\ \A p \in Requests : req[p].pc = "done" => req[p].attempts >= 1

\* C19: only probes decide the outcome of HALF_OPEN: a call admitted while
\* the breaker was CLOSED that completes while it is HALF_OPEN neither
\* advances successCount nor closes or re-opens the breaker.
C19_OnlyProbesDecide ==
  [][\A p \in Requests :
       (/\ Completes(p)
        /\ req[p].admittedIn = "CLOSED"
        /\ circuitBreaker.state = "HALF_OPEN") =>
         /\ circuitBreaker'.successCount = circuitBreaker.successCount
         /\ circuitBreaker'.state = "HALF_OPEN"]_vars

\* What holds: onSuccess and onFailure look at the state the breaker is in
\* when the call completes, not at the one it was admitted in, so every
\* call completing while HALF_OPEN counts as a probe: a success advances
\* successCount or closes the breaker, a failure re-opens it.
EveryOutcomeDecidesHalfOpen ==
  [][\A p \in Requests :
       (Completes(p) /\ circuitBreaker.state = "HALF_OPEN") =>
         /\ Succeeds(p) =>
              IF circuitBreaker.successCount + 1 >= halfOpenMaxAttempts
              THEN /\ circuitBreaker'.state = "CLOSED"
                   /\ circuitBreaker'.successCount = 0
              ELSE /\ circuitBreaker'.state = "HALF_OPEN"
                   /\ circuitBreaker'.successCount = circuitBreaker.successCount + 1
         /\ Fails(p) =>
              /\ circuitBreaker'.state = "OPEN"
              /\ circuitBreaker'.successCount = 0
              /\ circuitBreaker'.nextAttemptTime = now + resetTimeout]_vars

\* A call admitted while CLOSED is in flight while the breaker is HALF_OPEN.
StragglerInHalfOpen ==
  /\ circuitBreaker.state = "HALF_OPEN"
  /\ \E p \in Requests : InFlight(p) /\ req[p].admittedIn = "CLOSED"

\* C20: the breaker cannot stay OPEN forever. With time advancing, requests
\* arriving and every admitted call completing, an OPEN breaker eventually
\* admits a probe and is HALF_OPEN; and once the downstream has recovered,
\* so that every attempt succeeds, the breaker eventually is CLOSED and
\* stays CLOSED from then on.
C20_RecoversEventually ==
  /\ (circuitBreaker.state = "OPEN") ~> (circuitBreaker.state = "HALF_OPEN")
  /\ (faults = {}) ~> [](circuitBreaker.state = "CLOSED")

\* The breaker has been OPEN (only a trip assigns nextAttemptTime) and,
\* the downstream recovered, a successful probe has closed it again.
C20_Witness ==
  /\ faults = {}
  /\ circuitBreaker.state = "CLOSED"
  /\ circuitBreaker.nextAttemptTime > 0
  /\ req["r1"].pc = "done" /\ req["r1"].update = "onSuccess"

====
